---- MODULE Spec2Model ----
(***************************************************************************)
(* Hardware Depth Unprojector (src/hdu.c): hdu_init and hdu_unproject.     *)
(*                                                                         *)
(* The float fields and results are modelled as exact rationals <<n, d>>   *)
(* with d > 0 in lowest terms.  A 32-bit colour word is the sequence of    *)
(* its four bytes, least significant first.  A uint16_t read of the UV     *)
(* plane is little-endian.  Arrays are 1-based sequences: C index i is     *)
(* element i + 1.                                                          *)
(***************************************************************************)
EXTENDS Integers, Sequences, FiniteSets, TLC

VARIABLES config, h, frame, cloud, pcs, loc, pre, calls

vars == <<config, h, frame, cloud, pcs, loc, pre, calls>>

(* ------------------------------ bounds --------------------------------- *)
MaxWidth == 2
MaxHeight == 3
MaxCap == 3
MaxCalls == 2
Slack == 1

Threads == {1, 2}

(* --------------------------- exact arithmetic -------------------------- *)
Abs(x) == IF x < 0 THEN -x ELSE x

\* Euclid's algorithm and the reduction of n/d to lowest terms, written as
\* functions so that their arguments are evaluated once
gcd[a \in Nat, b \in Nat] == IF b = 0 THEN a ELSE gcd[b, a % b]

rnorm[n \in Int, d \in Int] ==
    LET g == gcd[Abs(n), Abs(d)]
        s == IF d < 0 THEN -1 ELSE 1
    IN  <<(s * n) \div g, (s * d) \div g>>

RNorm(n, d) == rnorm[n, d]

RInt(i) == <<i, 1>>
RMul(a, b) == RNorm(a[1] * b[1], a[2] * b[2])
RDiv(a, b) == RNorm(a[1] * b[2], a[2] * b[1])
RSub(a, b) == RNorm(a[1] * b[2] - b[1] * a[2], a[2] * b[2])
RNeg(a) == <<-a[1], a[2]>>
REq(a, b) == a[1] * b[2] = b[1] * a[2]
RSign(a) == IF a[1] > 0 THEN 1 ELSE IF a[1] < 0 THEN -1 ELSE 0

(* ------------------------- YUV -> RGB macros --------------------------- *)
\* x >> 8 on a signed int: arithmetic shift, rounding towards minus infinity
Asr8(x) == IF x >= 0 THEN x \div 256 ELSE -(((-x) + 255) \div 256)

CLIPNoUpper(X) == IF X < 0 THEN 0 ELSE X
CLIP(X) == IF X > 255 THEN 255 ELSE IF X < 0 THEN 0 ELSE X

C(Y) == Y - 16
D(U) == U - 128
E(V) == V - 128

YUV2RNoRound(Y, U, V) == CLIP(Asr8(298 * C(Y) + 409 * E(V)))
YUV2R(Y, U, V) == CLIP(Asr8(298 * C(Y) + 409 * E(V) + 128))
YUV2G(Y, U, V) == CLIP(Asr8(298 * C(Y) - 100 * D(U) - 208 * E(V) + 128))
YUV2B(Y, U, V) == CLIP(Asr8(298 * C(Y) + 516 * D(U) + 128))

\* the second and third macro arguments at the call sites
ArgU(UV) == UV \div 256
ArgV(UV) == UV % 256

\* store of an int into a uint8_t
ToU8(x) == x % 256

P010LE_MAX == 65472

(* --------------------------- 32-bit words ------------------------------ *)
RECURSIVE BitOr(_, _)
BitOr(a, b) ==
    IF a = 0 THEN b
    ELSE IF b = 0 THEN a
    ELSE (IF a % 2 = 1 \/ b % 2 = 1 THEN 1 ELSE 0) + 2 * BitOr(a \div 2, b \div 2)

\* the bytes of a value 0..255 shifted left by n bits (n a multiple of 8)
ShlByte(v, n) == [i \in 1..4 |-> IF i = (n \div 8) + 1 THEN v ELSE 0]
WordOr(a, b) == [i \in 1..4 |-> BitOr(a[i], b[i])]

default_color == <<255, 255, 255, 255>>

PackColorBigEndian(R, G, B) ==
    WordOr(WordOr(WordOr(ShlByte(R, 24), ShlByte(G, 16)), ShlByte(B, 8)),
           ShlByte(255, 0))
\* (0xFF << 24) | (B << 16) | (G << 8) | R & 0xFF; 0xFF << 24 is the bit
\* pattern FF000000 in every build
PackColor(R, G, B) ==
    WordOr(WordOr(WordOr(ShlByte(255, 24), ShlByte(B, 16)), ShlByte(G, 8)),
           ShlByte(R % 256, 0))

(* ------------------------------ hdu_init ------------------------------- *)
hdu_init(c) ==
    [ppx |-> c.ppx, ppy |-> c.ppy, fx |-> c.fx, fy |-> c.fy,
     depth_unit |-> c.depth_unit,
     min_depth |-> c.min_margin,
     max_depth |-> RSub(RMul(RInt(P010LE_MAX), c.depth_unit), c.max_margin)]

Configs ==
    { [ppx |-> RInt(0), ppy |-> RInt(0), fx |-> RInt(1), fy |-> RInt(1),
       depth_unit |-> <<1, 1000>>, min_margin |-> RInt(1), max_margin |-> RInt(1)],
      [ppx |-> RInt(1), ppy |-> RInt(1), fx |-> RInt(2), fy |-> RInt(3),
       depth_unit |-> <<1, 100>>, min_margin |-> RInt(1), max_margin |-> RInt(2)] }

(* ------------------------------ frames --------------------------------- *)
EvenCeil(w) == IF w % 2 = 0 THEN w ELSE w + 1

\* raw depth contents: 1000, 2000, 3000, ... and a content with samples
\* equal to 0 and samples outside [min_depth, max_depth]
DepthSample(pat, i) ==
    IF pat = 1 THEN 1000 * i
    ELSE <<0, 65535, 64, 65472, 0, 1000, 3>>[((i - 1) % 7) + 1]

ColorByte(i) == (37 * i + 90) % 256

\* bytes the caller provides for the NV12 buffer
ColorLen(cs, hgt) == cs * hgt + cs * (hgt \div 2)

MkFrame(w, hgt, ds, pat, col, cs) ==
    [width |-> w, height |-> hgt, depth_stride |-> ds,
     data |-> [i \in 1..((hgt * ds) \div 2) |-> DepthSample(pat, i)],
     colors |-> [null |-> ~col,
                 bytes |-> IF col THEN [i \in 1..ColorLen(cs, hgt) |-> ColorByte(i)]
                           ELSE <<>>],
     color_stride |-> cs]

Frames ==
    { MkFrame(w, hgt, 2 * w + o, pat, FALSE, EvenCeil(w)) :
        w \in 0..MaxWidth, hgt \in 0..MaxHeight, o \in {0, 1}, pat \in {1, 2} }
    \cup
    { MkFrame(x[1], x[2], 2 * x[1] + x[3], x[4], TRUE, EvenCeil(x[1]) + x[5]) :
        x \in (0..MaxWidth) \X (0..MaxHeight) \X {0, 1} \X {1, 2} \X {0, 2} }

EmptyFrame == MkFrame(0, 0, 0, 1, FALSE, 0)

\* frames of the same stream as f: the same row format and scene, with any
\* number of rows
SameFormat(f) ==
    { g \in Frames : /\ g.width = f.width
                     /\ g.depth_stride = f.depth_stride
                     /\ g.color_stride = f.color_stride
                     /\ g.colors.null = f.colors.null
                     /\ \A i \in DOMAIN g.data \cap DOMAIN f.data :
                          g.data[i] = f.data[i] }

(* ---------------------------- point clouds ----------------------------- *)
UnsetPoint == <<RInt(-1), RInt(-1), RInt(-1)>>
UnsetColor == <<0, 0, 0, 0>>

NewCloud(cap) ==
    [size |-> cap, used |-> 0,
     data |-> [i \in 1..(cap + Slack) |-> UnsetPoint],
     colors |-> [i \in 1..(cap + Slack) |-> UnsetColor]]

(* --------------------------- hdu_unproject ----------------------------- *)
\* automatic storage: every invocation has its own locals
LocalsShared(t) == 1
LocalsOf(t) == t

\* r * depth->depth_stride / 2 + c
DepthIndex(f, r, c) == (r * f.depth_stride) \div 2 + c

\* d and the three components written to pc->data[points]
PositionNoFlip(hh, f, r, c) ==
    LET d == RMul(RInt(f.data[DepthIndex(f, r, c) + 1]), hh.depth_unit)
    IN  <<RDiv(RMul(d, RSub(RInt(c), hh.ppx)), hh.fx),
          RDiv(RMul(d, RSub(RInt(r), hh.ppy)), hh.fy),
          d>>
Position(hh, f, r, c) ==
    LET d == RMul(RInt(f.data[DepthIndex(f, r, c) + 1]), hh.depth_unit)
    IN  <<RDiv(RMul(d, RSub(RInt(c), hh.ppx)), hh.fx),
          RDiv(RMul(RNeg(d), RSub(RInt(r), hh.ppy)), hh.fy),
          d>>

\* colorY[r * depth->color_stride + c], as a byte offset into depth->colors
YOffset(f, r, c) == r * f.color_stride + c

\* colorUV[(r/2) * (depth->color_stride/2) + (c/2)], as the byte offset of
\* the 16-bit sample into depth->colors
UVIndex(f, r, c) == (r \div 2) * (f.color_stride \div 2) + (c \div 2)
UVOffset(f, r, c) == f.color_stride * f.height + 2 * UVIndex(f, r, c)

\* values a read past the end of the colour buffer may yield
OobWords == {0, 65408}

\* the 16-bit values the UV read can yield
UVRead(f, r, c) ==
    LET o == UVOffset(f, r, c)
    IN  IF o + 2 <= Len(f.colors.bytes)
        THEN {f.colors.bytes[o + 1] + 256 * f.colors.bytes[o + 2]}
        ELSE OobWords

\* the values the loop body reads from outside the function's own state
Reads(f, l) == IF f.colors.null THEN {0} ELSE UVRead(f, l.r, l.c)

\* declarations and initialisers at function entry; d, Y, R, G are not
\* initialised and are written before they are read
CallFn(cl) ==
    [pc_size |-> cl.size, points |-> 0, d |-> RInt(0), r |-> 0, c |-> 0,
     Y |-> 0, R |-> 0, G |-> 0, B |-> 0, UV |-> 0]

\* r < depth->height
OuterCond(f, l) == l.r < f.height

\* c < depth->width && points < pc_size
InnerCondOffByOne(f, l) == l.c < f.width /\ l.points <= l.pc_size
InnerCondPerRow(f, l) == l.c < f.width /\ l.c < l.pc_size
InnerCond(f, l) == l.c < f.width /\ l.points < l.pc_size

\* the loop body followed by ++c
BodyFn(hh, f, l, cl, uv) ==
    LET pos == Position(hh, f, l.r, l.c)
        Y == IF f.colors.null THEN l.Y ELSE f.colors.bytes[YOffset(f, l.r, l.c) + 1]
        UV == IF f.colors.null THEN l.UV ELSE uv
        R == IF f.colors.null THEN l.R ELSE ToU8(YUV2R(Y, ArgU(UV), ArgV(UV)))
        G == IF f.colors.null THEN l.G ELSE ToU8(YUV2G(Y, ArgU(UV), ArgV(UV)))
        B == IF f.colors.null THEN l.B ELSE ToU8(YUV2B(Y, ArgU(UV), ArgV(UV)))
        word == IF f.colors.null THEN default_color ELSE PackColor(R, G, B)
    IN  [loc |-> [l EXCEPT !.d = pos[3], !.Y = Y, !.UV = UV, !.R = R, !.G = G,
                           !.B = B, !.points = l.points + 1, !.c = l.c + 1],
         cloud |-> [cl EXCEPT !.data[l.points + 1] = pos,
                              !.colors[l.points + 1] = word]]

\* pc->used = points
ReturnFnClear(l, cl) ==
    [cl EXCEPT !.used = l.points,
               !.colors = [i \in DOMAIN cl.colors |->
                             IF i > l.points THEN default_color ELSE cl.colors[i]]]
ReturnFn(l, cl) == [cl EXCEPT !.used = l.points]

(* ------------------------------ actions -------------------------------- *)
Call(t) ==
    /\ pcs[t] = "idle"
    /\ loc' = [loc EXCEPT ![LocalsOf(t)] = CallFn(cloud[t])]
    /\ pre' = [pre EXCEPT ![t] = [cloud |-> cloud[t], frame |-> frame[t]]]
    /\ pcs' = [pcs EXCEPT ![t] = "outer"]
    /\ UNCHANGED <<config, h, frame, cloud, calls>>

OuterTest(t) ==
    /\ pcs[t] = "outer"
    /\ IF OuterCond(frame[t], loc[LocalsOf(t)])
       THEN /\ loc' = [loc EXCEPT ![LocalsOf(t)].c = 0]
            /\ pcs' = [pcs EXCEPT ![t] = "inner"]
       ELSE /\ loc' = loc
            /\ pcs' = [pcs EXCEPT ![t] = "ret"]
    /\ UNCHANGED <<config, h, frame, cloud, pre, calls>>

Body(t) ==
    /\ pcs[t] = "inner"
    /\ InnerCond(frame[t], loc[LocalsOf(t)])
    /\ \E uv \in Reads(frame[t], loc[LocalsOf(t)]) :
         LET n == BodyFn(h, frame[t], loc[LocalsOf(t)], cloud[t], uv)
         IN  /\ loc' = [loc EXCEPT ![LocalsOf(t)] = n.loc]
             /\ cloud' = [cloud EXCEPT ![t] = n.cloud]
    /\ UNCHANGED <<config, h, frame, pcs, pre, calls>>

InnerExit(t) ==
    /\ pcs[t] = "inner"
    /\ ~InnerCond(frame[t], loc[LocalsOf(t)])
    /\ loc' = [loc EXCEPT ![LocalsOf(t)].r = @ + 1]
    /\ pcs' = [pcs EXCEPT ![t] = "outer"]
    /\ UNCHANGED <<config, h, frame, cloud, pre, calls>>

Return(t) ==
    /\ pcs[t] = "ret"
    /\ cloud' = [cloud EXCEPT ![t] = ReturnFn(loc[LocalsOf(t)], cloud[t])]
    /\ pcs' = [pcs EXCEPT ![t] = "done"]
    /\ UNCHANGED <<config, h, frame, loc, pre, calls>>

\* the capture side delivers the next frame of the stream; the caller
\* reuses the same point cloud for it
NextFrame ==
    /\ pcs[1] = "done"
    /\ calls < MaxCalls
    /\ \E g \in SameFormat(frame[1]) : frame' = [frame EXCEPT ![1] = g]
    /\ pcs' = [pcs EXCEPT ![1] = "idle"]
    /\ calls' = calls + 1
    /\ UNCHANGED <<config, h, cloud, loc, pre>>

(* --------- one caller, a point cloud reused over several frames -------- *)
Init ==
    /\ config \in Configs
    /\ h = hdu_init(config)
    /\ \E f \in Frames : frame = [t \in Threads |-> IF t = 1 THEN f ELSE EmptyFrame]
    /\ \E cap \in 0..MaxCap :
         cloud = [t \in Threads |-> IF t = 1 THEN NewCloud(cap) ELSE NewCloud(0)]
    /\ pcs = [t \in Threads |-> "idle"]
    /\ loc = [t \in Threads |-> CallFn(NewCloud(0))]
    /\ pre = [t \in Threads |-> [cloud |-> cloud[t], frame |-> frame[t]]]
    /\ calls = 1

Next ==
    \/ Call(1)
    \/ OuterTest(1)
    \/ Body(1)
    \/ InnerExit(1)
    \/ Return(1)
    \/ NextFrame

Spec == Init /\ [][Next]_vars

(* ------------- two concurrent calls on the same Unprojector ------------ *)
ConcFrames ==
    { f \in Frames : /\ f.height = 2
                     /\ f.width = MaxWidth
                     /\ f.depth_stride = 2 * f.width
                     /\ f.color_stride = EvenCeil(f.width) }

ConcInit ==
    /\ config \in Configs
    /\ h = hdu_init(config)
    /\ frame \in [Threads -> ConcFrames]
    /\ \E caps \in [Threads -> {1, MaxCap}] :
         cloud = [t \in Threads |-> NewCloud(caps[t])]
    /\ pcs = [t \in Threads |-> "idle"]
    /\ loc = [t \in Threads |-> CallFn(NewCloud(0))]
    /\ pre = [t \in Threads |-> [cloud |-> cloud[t], frame |-> frame[t]]]
    /\ calls = 1

ThreadStep(t) ==
    \/ Call(t)
    \/ OuterTest(t)
    \/ Body(t)
    \/ InnerExit(t)
    \/ Return(t)

ConcNext == \E t \in Threads : ThreadStep(t)

\* every started thread is eventually scheduled
ConcSpec ==
    ConcInit /\ [][ConcNext]_vars /\ \A t \in Threads : WF_vars(ThreadStep(t))

(* ---------------- one call over sampled Y, U, V bytes ------------------ *)
ByteSamples == {0, 16, 128, 235, 255} \cup {17 * k : k \in 0..15}

YuvFrame(y, lo, hi) ==
    [width |-> 1, height |-> 2, depth_stride |-> 2,
     data |-> <<1000, 2000>>,
     colors |-> [null |-> FALSE, bytes |-> <<y, 0, y, 0, lo, hi>>],
     color_stride |-> 2]

YuvInit ==
    /\ config \in Configs
    /\ config.depth_unit = <<1, 1000>>
    /\ h = hdu_init(config)
    /\ \E y \in ByteSamples, lo \in ByteSamples, hi \in ByteSamples :
         frame = [t \in Threads |-> IF t = 1 THEN YuvFrame(y, lo, hi) ELSE EmptyFrame]
    /\ cloud = [t \in Threads |-> IF t = 1 THEN NewCloud(MaxCap) ELSE NewCloud(0)]
    /\ pcs = [t \in Threads |-> "idle"]
    /\ loc = [t \in Threads |-> CallFn(NewCloud(0))]
    /\ pre = [t \in Threads |-> [cloud |-> cloud[t], frame |-> frame[t]]]
    /\ calls = 1

YuvNext ==
    \/ Call(1)
    \/ OuterTest(1)
    \/ Body(1)
    \/ InnerExit(1)
    \/ Return(1)

YuvSpec == YuvInit /\ [][YuvNext]_vars

(* ============================== claims ================================= *)
\* a step of thread t that ran the loop body for pixel (loc[t].r, loc[t].c)
\* and wrote index loc[t].points
Emitted(t) == pcs[t] = "inner" /\ loc'[t].points = loc[t].points + 1

RLess(a, b) == a[1] * b[2] < b[1] * a[2]

\* C1: every index written in pc->data and pc->colors during the scan is
\* strictly below the capacity pc->size, and on return pc->used <= pc->size.
C1_WritesBelowCapacity ==
    [][\A t \in Threads :
         /\ Emitted(t) => loc[t].points < cloud[t].size
         /\ \A k \in DOMAIN cloud[t].data :
              (cloud'[t].data[k] # cloud[t].data[k]
                 \/ cloud'[t].colors[k] # cloud[t].colors[k]) => k - 1 < cloud[t].size
         /\ pcs'[t] = "done" => cloud'[t].used <= cloud'[t].size]_vars

\* a call that returned with the cloud full although pixels were left
C1_Witness ==
    /\ pcs[1] = "done"
    /\ cloud[1].size > 0
    /\ cloud[1].used = cloud[1].size
    /\ frame[1].width * frame[1].height > cloud[1].size

\* C2: on return used = min(width * height, capacity) and the point at index
\* k < used is the position computed from pixel (k / width, k % width),
\* whatever the raw depth content (zero or out-of-range samples included).
C2_RasterPrefix ==
    \A t \in Threads :
      pcs[t] = "done" =>
        LET f == frame[t]
            cl == cloud[t]
            n == f.width * f.height
        IN  /\ cl.used = (IF n <= cl.size THEN n ELSE cl.size)
            /\ \A k \in 0..(cl.used - 1) :
                 cl.data[k + 1] = Position(h, f, k \div f.width, k % f.width)

\* a truncated scan that emitted a zero sample and a sample beyond max_depth
C2_Witness ==
    /\ pcs[1] = "done"
    /\ cloud[1].used = cloud[1].size
    /\ frame[1].width * frame[1].height > cloud[1].size
    /\ \E k \in 1..cloud[1].used : cloud[1].data[k][3] = RInt(0)
    /\ \E k \in 1..cloud[1].used : RLess(h.max_depth, cloud[1].data[k][3])

\* the position equations for the point p written for pixel (r, c) whose
\* raw sample is raw
PinholeEquations(p, raw, r, c) ==
    /\ REq(p[3], <<raw * h.depth_unit[1], h.depth_unit[2]>>)
    /\ REq(RMul(p[1], h.fx), RMul(p[3], RSub(RInt(c), h.ppx)))
    /\ REq(RMul(p[2], h.fy), RNeg(RMul(p[3], RSub(RInt(r), h.ppy))))
    /\ (RSign(p[3]) > 0 /\ RSign(h.fy) > 0)
         => RSign(p[2]) = -RSign(RSub(RInt(r), h.ppy))

\* the 2x2 example: raw depths 1000..4000, unit 1/1000, ppx = ppy = 0,
\* fx = fy = 1
IsExample(f) ==
    /\ f.width = 2 /\ f.height = 2 /\ f.depth_stride = 4
    /\ f.data = <<1000, 2000, 3000, 4000>>
    /\ h.depth_unit = <<1, 1000>> /\ h.ppx = RInt(0) /\ h.ppy = RInt(0)
    /\ h.fx = RInt(1) /\ h.fy = RInt(1)

ExamplePoints(t) ==
    (IsExample(frame[t]) /\ loc[t].points <= 1)
      => cloud'[t].data[loc[t].points + 1] =
           (IF loc[t].points = 0 THEN <<RInt(0), RInt(0), RInt(1)>>
                                 ELSE <<RInt(2), RInt(0), RInt(2)>>)

\* C3 as stated: the sample of pixel (r, c) is taken at index
\* r * (depth_stride / 2) + c, for even and odd depth_stride.
C3_Original ==
    [][\A t \in Threads :
         Emitted(t) =>
           LET f == frame[t]
               r == loc[t].r
               c == loc[t].c
           IN  /\ PinholeEquations(cloud'[t].data[loc[t].points + 1],
                                   f.data[r * (f.depth_stride \div 2) + c + 1], r, c)
               /\ ExamplePoints(t)]_vars

\* C3 (amended): the point emitted for pixel (r, c) has z = raw * depth_unit,
\* x = z * (c - ppx) / fx and y = -z * (r - ppy) / fy, where raw is the
\* sample at index floor(r * depth_stride / 2) + c of the depth data.
C3_Pinhole ==
    [][\A t \in Threads :
         Emitted(t) =>
           LET f == frame[t]
               r == loc[t].r
               c == loc[t].c
           IN  /\ PinholeEquations(cloud'[t].data[loc[t].points + 1],
                                   f.data[((r * f.depth_stride) \div 2) + c + 1], r, c)
               /\ ExamplePoints(t)]_vars

\* a point emitted from row 2 of a frame with an odd depth_stride, with
\* y < 0 < z
C3_Witness ==
    /\ pcs[1] = "inner"
    /\ loc[1].r = 2
    /\ loc[1].c > 0
    /\ frame[1].depth_stride % 2 = 1
    /\ loc[1].points > 0
    /\ RSign(cloud[1].data[loc[1].points][3]) > 0
    /\ RSign(cloud[1].data[loc[1].points][2]) < 0

\* saturation to [0, 255] and the rounded-down quotient by 256
Sat(x) == IF x < 0 THEN 0 ELSE IF x > 255 THEN 255 ELSE x
Floor256(x) == x \div 256

RawR(Y, V) == Floor256(298 * (Y - 16) + 409 * (V - 128) + 128)
RawG(Y, U, V) == Floor256(298 * (Y - 16) - 100 * (U - 128) - 208 * (V - 128) + 128)
RawB(Y, U) == Floor256(298 * (Y - 16) + 516 * (U - 128) + 128)

\* thread t has converted at least one pixel of a frame with colours in
\* the current call
Converted(t) ==
    /\ pcs[t] \in {"inner", "outer", "ret", "done"}
    /\ loc[t].points > 0
    /\ ~frame[t].colors.null

\* C4: the chroma sample of pixel (r, c) is the 16-bit value at UV-plane
\* index (r/2) * (color_stride/2) + (c/2); its low byte is U and its high
\* byte is V, so R is a function of Y and the high byte and B of Y and the
\* low byte.
C4_ChromaBytes ==
    [][\A t \in Threads :
         (Emitted(t) /\ ~frame[t].colors.null) =>
           LET f == frame[t]
               o == f.color_stride * f.height
                      + 2 * ((loc[t].r \div 2) * (f.color_stride \div 2) + (loc[t].c \div 2))
           IN  (o + 2 <= Len(f.colors.bytes)) =>
                 LET lo == f.colors.bytes[o + 1]
                     hi == f.colors.bytes[o + 2]
                     Y == f.colors.bytes[loc[t].r * f.color_stride + loc[t].c + 1]
                 IN  /\ loc'[t].UV = lo + 256 * hi
                     /\ loc'[t].R = Sat(RawR(Y, hi))
                     /\ loc'[t].B = Sat(RawB(Y, lo))]_vars

\* C5 as stated: a channel whose unclamped value is below 0 is stored as 0,
\* one above 255 as 255, and Y = 16, V = 255 produces R = 255.
C5_Original ==
    \A t \in Threads :
      Converted(t) =>
        LET Y == loc[t].Y
            U == ArgU(loc[t].UV)
            V == ArgV(loc[t].UV)
        IN  /\ RawR(Y, V) < 0 => loc[t].R = 0
            /\ RawR(Y, V) > 255 => loc[t].R = 255
            /\ RawG(Y, U, V) < 0 => loc[t].G = 0
            /\ RawG(Y, U, V) > 255 => loc[t].G = 255
            /\ RawB(Y, U) < 0 => loc[t].B = 0
            /\ RawB(Y, U) > 255 => loc[t].B = 255
            /\ (Y = 16 /\ V = 255) => loc[t].R = 255

\* C5 (amended): a channel whose unclamped value is below 0 is stored as 0
\* and one above 255 as 255, never wrapped modulo 256; Y = 16, V = 255 has
\* the unclamped red value 203 and is stored as R = 203, while Y = 235,
\* V = 255 (unclamped 458) is stored as R = 255.
C5_Saturation ==
    \A t \in Threads :
      Converted(t) =>
        LET Y == loc[t].Y
            U == ArgU(loc[t].UV)
            V == ArgV(loc[t].UV)
        IN  /\ RawR(Y, V) < 0 => loc[t].R = 0
            /\ RawR(Y, V) > 255 => loc[t].R = 255
            /\ RawG(Y, U, V) < 0 => loc[t].G = 0
            /\ RawG(Y, U, V) > 255 => loc[t].G = 255
            /\ RawB(Y, U) < 0 => loc[t].B = 0
            /\ RawB(Y, U) > 255 => loc[t].B = 255
            /\ (Y = 16 /\ V = 255) => loc[t].R = 203
            /\ (Y = 235 /\ V = 255) => loc[t].R = 255

\* red saturated at 255 and blue at 0 for Y = 235, U = 0, V = 255
C5_Witness ==
    /\ Converted(1)
    /\ loc[1].Y = 235
    /\ ArgU(loc[1].UV) = 0
    /\ ArgV(loc[1].UV) = 255
    /\ loc[1].R = 255
    /\ loc[1].B = 0

\* C6: for the (Y, U, V) passed to the conversion, R, G and B are the
\* saturated, arithmetically shifted BT.601 sums; U = V = 128 gives
\* R = G = B = 0 at Y = 16 and R = G = B = 255 at Y = 235.
C6_Conversion ==
    \A t \in Threads :
      Converted(t) =>
        LET Y == loc[t].Y
            U == ArgU(loc[t].UV)
            V == ArgV(loc[t].UV)
        IN  /\ loc[t].R = Sat(RawR(Y, V))
            /\ loc[t].G = Sat(RawG(Y, U, V))
            /\ loc[t].B = Sat(RawB(Y, U))
            /\ (Y = 16 /\ U = 128 /\ V = 128)
                 => (loc[t].R = 0 /\ loc[t].G = 0 /\ loc[t].B = 0)
            /\ (Y = 235 /\ U = 128 /\ V = 128)
                 => (loc[t].R = 255 /\ loc[t].G = 255 /\ loc[t].B = 255)

\* neutral chroma at Y = 235 converted to white
C6_Witness ==
    /\ Converted(1)
    /\ loc[1].Y = 235
    /\ loc[1].UV = 128 + 256 * 128
    /\ loc[1].R = 255 /\ loc[1].G = 255 /\ loc[1].B = 255

\* C7: every colour word written has alpha 255: with a colour buffer its
\* bytes are R, G, B, 255 from least to most significant for the converted
\* R, G, B in 0..255; without one it is 0xFFFFFFFF.
C7_ColorWord ==
    [][\A t \in Threads :
         Emitted(t) =>
           LET w == cloud'[t].colors[loc[t].points + 1]
           IN  /\ w[4] = 255
               /\ frame[t].colors.null => w = <<255, 255, 255, 255>>
               /\ ~frame[t].colors.null =>
                    /\ {loc'[t].R, loc'[t].G, loc'[t].B} \subseteq 0..255
                    /\ w = <<loc'[t].R, loc'[t].G, loc'[t].B, 255>>]_vars

\* a word packed from three different channel values
C7_Witness ==
    /\ Converted(1)
    /\ loc[1].R # loc[1].G /\ loc[1].G # loc[1].B /\ loc[1].R # loc[1].B
    /\ cloud[1].colors[loc[1].points] = <<loc[1].R, loc[1].G, loc[1].B, 255>>

\* C8: with a colour buffer of color_stride * height + color_stride *
\* (height / 2) bytes, every Y byte and every 16-bit UV sample read lies
\* inside the buffer, for odd and even heights.
C8_ColorReadsInBounds ==
    [][\A t \in Threads :
         LET f == frame[t]
             len == f.color_stride * f.height + f.color_stride * (f.height \div 2)
         IN  (/\ Emitted(t)
              /\ ~f.colors.null
              /\ Len(f.colors.bytes) = len
              /\ f.height >= 1
              /\ f.color_stride % 2 = 0
              /\ f.width <= f.color_stride
              /\ cloud[t].size >= f.width * f.height)
             => /\ loc[t].r * f.color_stride + loc[t].c < len
                /\ f.color_stride * f.height
                     + 2 * ((loc[t].r \div 2) * (f.color_stride \div 2) + (loc[t].c \div 2))
                     + 2 <= len]_vars

\* C9: a call changes only pc->used and the entries below the number of
\* points written: entries at indexes >= used keep the values they had
\* before the call, pc->size and the depth frame are unchanged, and the
\* Unprojector still holds the values hdu_init set.
C9_FrameEffect ==
    \A t \in Threads :
      /\ h = hdu_init(config)
      /\ pcs[t] # "idle" =>
           LET written == IF pcs[t] = "done" THEN cloud[t].used ELSE loc[t].points
           IN  /\ cloud[t].size = pre[t].cloud.size
               /\ frame[t] = pre[t].frame
               /\ DOMAIN cloud[t].data = DOMAIN pre[t].cloud.data
               /\ DOMAIN cloud[t].colors = DOMAIN pre[t].cloud.colors
               /\ \A k \in DOMAIN cloud[t].data :
                    k > written =>
                      /\ cloud[t].data[k] = pre[t].cloud.data[k]
                      /\ cloud[t].colors[k] = pre[t].cloud.colors[k]

\* a second call on the same cloud that wrote fewer points than the first:
\* an entry past used still holds the first call's point
C9_Witness ==
    /\ pcs[1] = "done"
    /\ calls = 2
    /\ \E k \in DOMAIN cloud[1].data :
         /\ k > cloud[1].used
         /\ k <= cloud[1].size
         /\ cloud[1].data[k] # UnsetPoint
         /\ cloud[1].colors[k] # UnsetColor

\* the call run alone: the steps of one invocation, in program order
SeqStep(hh, f, st) ==
    IF st.pcs = "idle"
    THEN [pcs |-> "outer", loc |-> CallFn(st.cloud), cloud |-> st.cloud]
    ELSE IF st.pcs = "outer"
    THEN IF OuterCond(f, st.loc)
         THEN [st EXCEPT !.pcs = "inner", !.loc.c = 0]
         ELSE [st EXCEPT !.pcs = "ret"]
    ELSE IF st.pcs = "inner"
    THEN IF InnerCond(f, st.loc)
         THEN LET n == BodyFn(hh, f, st.loc, st.cloud,
                              CHOOSE uv \in Reads(f, st.loc) : TRUE)
              IN  [pcs |-> "inner", loc |-> n.loc, cloud |-> n.cloud]
         ELSE [st EXCEPT !.pcs = "outer", !.loc.r = @ + 1]
    ELSE [st EXCEPT !.pcs = "done", !.cloud = ReturnFn(st.loc, st.cloud)]

\* (the next state is bound as a value before the recursion continues)
RECURSIVE AloneRun(_, _, _)
AloneRun(hh, f, st) ==
    IF st.pcs = "done" THEN st.cloud
    ELSE CHOOSE res \in {AloneRun(hh, f, nx) : nx \in {SeqStep(hh, f, st)}} : TRUE

Alone(hh, f, cl) ==
    AloneRun(hh, f, [pcs |-> "idle", loc |-> CallFn(cl), cloud |-> cl])

\* C10: two concurrent calls on the same Unprojector with different point
\* clouds both finish, and each leaves its cloud as the call run alone does.
C10_Concurrent ==
    /\ [](\A t \in Threads :
            pcs[t] = "done" => cloud[t] = Alone(h, frame[t], pre[t].cloud))
    /\ <>(\A t \in Threads : pcs[t] = "done")

\* both calls finished on the same frame with clouds of different capacity
C10_Witness ==
    /\ pcs[1] = "done" /\ pcs[2] = "done"
    /\ frame[1] = frame[2]
    /\ ~frame[1].colors.null
    /\ cloud[1].used < cloud[2].used
    /\ cloud[1] = Alone(h, frame[1], pre[1].cloud)

====
